---- MODULE Spec2Model ----
(***************************************************************************)
(* A model of the two batch jobs of toolkit-tags:                          *)
(*   get_node_ids.py  - the identifier resolver (Spec, SpecTwice), with    *)
(*                      its HTML start-tag handler (SpecParser);           *)
(*   prepare_data.py  - the tag classifier (SpecClassify, SpecClassifier). *)
(*                                                                         *)
(* Strings.  A Python str is a sequence of chunks.  The chunk " " is one   *)
(* whitespace character, the chunk "/" is one slash, every other chunk is  *)
(* a run of characters that neither starts nor ends with whitespace or a   *)
(* slash.  "" is << >>, concatenation is \o.  Optional[str] is a set:      *)
(* None is {} and the string s is {s}.                                     *)
(*                                                                         *)
(* Lists are 1-based here and 0-based in the source: node_col_idx and      *)
(* edit_col_idx hold the source's index plus one.                          *)
(*                                                                         *)
(* csv.reader / csv.writer are library code: a file on disk is held as the *)
(* list of records csv.reader returns for it.                              *)
(***************************************************************************)
EXTENDS Integers, Sequences, FiniteSets, TLC

VARIABLES
    \* ---- get_node_ids.py: the disk
    csv_exists, csv_file, tmp_exists, tmp_file,
    \* ---- get_node_ids.py: the process (args, locals of main, output)
    args, pc, rows, node_col_idx, edit_col_idx, updated_rows, i, url,
    written, stdout, requests, exit_code,
    \* ---- get_node_ids.py: the network and the history of runs
    web, run, orig, first_result,
    \* ---- ArticleNodeIdParser fed one document
    doc, pos, node_id,
    \* ---- prepare_data.py: classify_article called on one article
    article, ret, stderr,
    \* ---- prepare_data.py: main
    paths_csv, articles, path_map, k, results, matched, unmatched_paths,
    warnings, output_file, cpc

diskvars == <<csv_exists, csv_file, tmp_exists, tmp_file>>
procvars == <<args, pc, rows, node_col_idx, edit_col_idx, updated_rows, i, url,
              written, stdout, requests, exit_code>>
histvars == <<web, run, orig, first_result>>
rvars == <<diskvars, procvars, histvars>>
pvars == <<doc, pos, node_id>>
avars == <<article, ret, stderr>>
cvars == <<paths_csv, articles, path_map, k, results, matched, unmatched_paths,
           warnings, output_file, cpc>>
others == <<pvars, avars, cvars>>
vars == <<rvars, pvars, avars, cvars>>

(***************************************************************************)
(* Bounds                                                                  *)
(***************************************************************************)
MaxRows == 2
MaxDocTags == 3
MaxTags == 3
MaxFeelings == 1
MaxArticles == 3

(***************************************************************************)
(* str and Optional[str]                                                   *)
(***************************************************************************)
None == {}
Some(s) == {s}
Val(o) == CHOOSE s \in o : TRUE
\* Python truthiness of an Optional[str]: neither None nor "".
Truthy(o) == o # None /\ o # Some(<< >>)

RECURSIVE lstrip(_, _)
lstrip(s, c) == IF s # << >> /\ Head(s) = c THEN lstrip(Tail(s), c) ELSE s

RECURSIVE rstrip(_, _)
rstrip(s, c) ==
    IF s # << >> /\ s[Len(s)] = c THEN rstrip(SubSeq(s, 1, Len(s) - 1), c) ELSE s

strip(s) == rstrip(lstrip(s, " "), " ")

startswith(s, p) == Len(s) >= Len(p) /\ SubSeq(s, 1, Len(p)) = p

\* list.index(x) + 1 for an x that is in the list
IndexOf(list, x) == CHOOSE n \in 1..Len(list) : list[n] = x /\ \A m \in 1..(n - 1) : list[m] # x
In(x, list) == \E n \in 1..Len(list) : list[n] = x
Max(a, b) == IF a >= b THEN a ELSE b

(***************************************************************************)
(* get_node_ids.py                                                         *)
(***************************************************************************)
DEFAULT_BASE_URL == <<"https:", "/", "/", "www.lifeline.org.au">>
node_col_name == <<"node-id">>
edit_col_name == <<"edit-link">>

\* ---- ArticleNodeIdParser
ARTICLE == "article"
ATTR == "data-history-node-id"
lower(tag) == IF tag \in {"ARTICLE", "Article", "article"} THEN "article" ELSE tag

\* {k: v for k, v in attrs}.get(name): the last pair named `name` wins;
\* None when there is none (or when its value is None).
RECURSIVE attr_get(_, _)
attr_get(attrs, name) ==
    IF attrs = << >> THEN None
    ELSE IF attrs[Len(attrs)][1] = name THEN attrs[Len(attrs)][2]
    ELSE attr_get(SubSeq(attrs, 1, Len(attrs) - 1), name)

\* The value of self.node_id after handle_starttag(tag, attrs) on a parser
\* whose self.node_id is nid.
handle_starttag(nid, tag, attrs) ==
    IF nid # None THEN nid
    ELSE IF lower(tag) # ARTICLE THEN nid
    ELSE LET v == attr_get(attrs, ATTR)
         IN  IF Truthy(v) THEN Some(strip(Val(v))) ELSE nid

\* parser.feed(html): handle_starttag on every start tag, in document order.
RECURSIVE feed(_, _)
feed(nid, tags) ==
    IF tags = << >> THEN nid
    ELSE feed(handle_starttag(nid, Head(tags)[1], Head(tags)[2]), Tail(tags))

\* fetch_node_id on a response whose decoded body holds the start tags `page`.
fetch_node_id(page) == feed(None, page)

normalize_url(base_url, drupal_path) ==
    IF startswith(drupal_path, <<"http:", "/", "/">>)
       \/ startswith(drupal_path, <<"https:", "/", "/">>)
    THEN drupal_path
    ELSE rstrip(base_url, "/") \o <<"/">> \o lstrip(drupal_path, "/")

edit_link(base_url, nid) ==
    rstrip(base_url, "/") \o <<"/", "node", "/">> \o nid \o <<"/", "edit">>

\* ---- the inputs of a run
Tag(name, attrs) == <<name, attrs>>
PageFound == <<Tag("div", << >>), Tag("article", <<<<ATTR, Some(<<"482">>)>>>>)>>
PageBlankId == <<Tag("article", <<<<ATTR, Some(<<" ">>)>>>>), Tag("article", <<<<ATTR, Some(<<"482">>)>>>>)>>
PageNoArticle == <<Tag("div", <<<<ATTR, Some(<<"482">>)>>>>)>>
Pages == {PageFound, PageBlankId, PageNoArticle}
\* What urlopen(...) does for a URL: raises, or answers with a page.
Outcomes == {[raises |-> TRUE, page |-> << >>]} \cup {[raises |-> FALSE, page |-> p] : p \in Pages}

Link7 == DEFAULT_BASE_URL \o <<"/", "node", "/", "7", "/", "edit">>
\* A data row by the name of each column, and the number of cells the line holds.
RowKinds ==
    { [path |-> << >>, node |-> << >>, edit |-> << >>, len |-> 0],
      [path |-> <<"a">>, node |-> << >>, edit |-> << >>, len |-> 2],
      [path |-> <<"a">>, node |-> <<"7">>, edit |-> Link7, len |-> 4],
      [path |-> << >>, node |-> <<"9">>, edit |-> << >>, len |-> 3],
      [path |-> <<"/", "a">>, node |-> <<" ">>, edit |-> <<"junk">>, len |-> 4],
      [path |-> <<" ">>, node |-> << >>, edit |-> << >>, len |-> 1],
      [path |-> <<"https:", "/", "/", "h", "/", "b">>, node |-> <<"7">>, edit |-> << >>, len |-> 4] }

CellOf(kind, col) ==
    IF col = node_col_name THEN kind.node
    ELSE IF col = edit_col_name THEN kind.edit
    ELSE IF col = <<"drupal-path">> THEN kind.path
    ELSE <<"d">>

RowOf(header, kind) ==
    [c \in 1..(IF kind.len < Len(header) THEN kind.len ELSE Len(header)) |-> CellOf(kind, header[c])]

\* The first column is the source path (section 6 of the specification).
Headers ==
    { <<<<"drupal-path">>, <<"sanity-path">>>>,
      <<<<"drupal-path">>, <<"sanity-path">>, node_col_name>>,
      <<<<"drupal-path">>, <<"sanity-path">>, node_col_name, edit_col_name>>,
      <<<<"drupal-path">>, edit_col_name, node_col_name>> }

RECURSIVE SeqsUpTo(_, _)
SeqsUpTo(S, n) ==
    IF n = 0 THEN {<< >>}
    ELSE LET shorter == SeqsUpTo(S, n - 1)
         IN  shorter \cup {Append(s, x) : s \in {t \in shorter : Len(t) = n - 1}, x \in S}

Tables ==
    {<< >>} \cup
    UNION { { <<h>> \o body : body \in SeqsUpTo({RowOf(h, kd) : kd \in RowKinds}, MaxRows) } : h \in Headers }

Args == [base_url : {DEFAULT_BASE_URL, DEFAULT_BASE_URL \o <<"/">>}, skip_existing : BOOLEAN]

\* ---- main
total == Len(rows) - 1
Width == Max(node_col_idx, edit_col_idx)

\* while len(row) <= max(node_col_idx, edit_col_idx): row.append("")
RECURSIVE Pad(_, _)
Pad(row, width) == IF Len(row) < width THEN Pad(Append(row, << >>), width) ELSE row

\* The process memory of a run that has not started (or is gone).
Fresh ==
    /\ rows' = << >>
    /\ node_col_idx' = 0
    /\ edit_col_idx' = 0
    /\ updated_rows' = << >>
    /\ i' = 0
    /\ url' = << >>
    /\ written' = 0
    /\ stdout' = << >>
    /\ requests' = << >>

\* lines 94-97
CsvMissing ==
    /\ pc = "start"
    /\ ~csv_exists
    /\ exit_code' = 1
    /\ pc' = "done"
    /\ UNCHANGED <<diskvars, args, rows, node_col_idx, edit_col_idx, updated_rows, i,
                   url, written, stdout, requests, histvars>>
    /\ UNCHANGED others

\* lines 99-105
CsvEmpty ==
    /\ pc = "start"
    /\ csv_exists
    /\ csv_file = << >>
    /\ exit_code' = 1
    /\ pc' = "done"
    /\ UNCHANGED <<diskvars, args, rows, node_col_idx, edit_col_idx, updated_rows, i,
                   url, written, stdout, requests, histvars>>
    /\ UNCHANGED others

\* lines 110-120 with the membership tests left out: both names always appended.
AddColumnsAlways(header) == Append(Append(header, node_col_name), edit_col_name)

\* lines 110-120 with the two names appended in the other order.
AddColumnsSwapped(header) ==
    LET h1 == IF In(edit_col_name, header) THEN header ELSE Append(header, edit_col_name)
    IN  IF In(node_col_name, h1) THEN h1 ELSE Append(h1, node_col_name)

\* lines 110-120: the header with the missing column names appended.
AddColumns(header) ==
    LET h1 == IF In(node_col_name, header) THEN header ELSE Append(header, node_col_name)
    IN  IF In(edit_col_name, h1) THEN h1 ELSE Append(h1, edit_col_name)

\* lines 99-123
ReadCsv ==
    /\ pc = "start"
    /\ csv_exists
    /\ csv_file # << >>
    /\ LET header == AddColumns(csv_file[1])
       IN  /\ rows' = [csv_file EXCEPT ![1] = header]
           /\ node_col_idx' = IndexOf(header, node_col_name)
           /\ edit_col_idx' = IndexOf(header, edit_col_name)
           /\ updated_rows' = <<header>>
    /\ i' = 1
    /\ pc' = "loop"
    /\ UNCHANGED <<diskvars, args, url, written, stdout, requests, exit_code, histvars>>
    /\ UNCHANGED others

\* The row of the iteration, before and after lines 127-128.
RawRow == rows[i + 1]
PaddedRow == Pad(RawRow, Width)
drupal_path == IF PaddedRow # << >> THEN strip(PaddedRow[1]) ELSE << >>
existing == strip(PaddedRow[node_col_idx])

InLoop == pc = "loop" /\ i <= total

\* Only the identifier is stored, the edit link is left as it was.
SetCellsNodeOnly(row, nid, link) == [row EXCEPT ![node_col_idx] = nid]

\* lines 148-149 (and 152-153, 156-157 with "" for both)
SetCells(row, nid, link) == [row EXCEPT ![node_col_idx] = nid, ![edit_col_idx] = link]

\* lines 125-136
SkipExisting ==
    /\ InLoop
    /\ args.skip_existing /\ existing # << >>
    /\ rows' = [rows EXCEPT ![i + 1] = PaddedRow]
    /\ updated_rows' = Append(updated_rows, PaddedRow)
    /\ stdout' = Append(stdout, <<i, "skip">>)
    /\ i' = i + 1
    /\ UNCHANGED <<diskvars, args, pc, node_col_idx, edit_col_idx, url, written,
                   requests, exit_code, histvars>>
    /\ UNCHANGED others

\* The blank-path branch clearing both cells, as the failure branches do.
EmptyPathClears ==
    /\ InLoop
    /\ ~(args.skip_existing /\ existing # << >>)
    /\ drupal_path = << >>
    /\ rows' = [rows EXCEPT ![i + 1] = SetCells(PaddedRow, << >>, << >>)]
    /\ updated_rows' = Append(updated_rows, SetCells(PaddedRow, << >>, << >>))
    /\ stdout' = Append(stdout, <<i, "blank">>)
    /\ i' = i + 1
    /\ UNCHANGED <<diskvars, args, pc, node_col_idx, edit_col_idx, url, written,
                   requests, exit_code, histvars>>
    /\ UNCHANGED others

\* lines 125-141
EmptyPath ==
    /\ InLoop
    /\ ~(args.skip_existing /\ existing # << >>)
    /\ drupal_path = << >>
    /\ rows' = [rows EXCEPT ![i + 1] = PaddedRow]
    /\ updated_rows' = Append(updated_rows, PaddedRow)
    /\ stdout' = Append(stdout, <<i, "blank">>)
    /\ i' = i + 1
    /\ UNCHANGED <<diskvars, args, pc, node_col_idx, edit_col_idx, url, written,
                   requests, exit_code, histvars>>
    /\ UNCHANGED others

\* lines 125-146 and 53: the request for the row's page goes out.
BeginFetch ==
    /\ InLoop
    /\ ~(args.skip_existing /\ existing # << >>)
    /\ drupal_path # << >>
    /\ rows' = [rows EXCEPT ![i + 1] = PaddedRow]
    /\ url' = normalize_url(args.base_url, drupal_path)
    /\ requests' = Append(requests, <<i, normalize_url(args.base_url, drupal_path)>>)
    /\ pc' = "fetch"
    /\ UNCHANGED <<diskvars, args, node_col_idx, edit_col_idx, updated_rows, i, written,
                   stdout, exit_code, histvars>>
    /\ UNCHANGED others

\* The network answers a URL the same way every time it is asked.
Answers(o) ==
    /\ url \in DOMAIN web => web[url] = o
    /\ web' = IF url \in DOMAIN web THEN web ELSE [u \in DOMAIN web \cup {url} |-> IF u = url THEN o ELSE web[u]]

\* The row is appended to updated_rows and the loop moves on (lines 160-162).
NextRow(row, outcome) ==
    /\ rows' = [rows EXCEPT ![i + 1] = row]
    /\ updated_rows' = Append(updated_rows, row)
    /\ stdout' = Append(stdout, <<i, outcome>>)
    /\ i' = i + 1
    /\ pc' = "loop"
    /\ exit_code' = exit_code

\* What an uncaught exception in the loop would do: the run ends, nothing written.
Abort(row, outcome) ==
    /\ rows' = rows
    /\ updated_rows' = updated_rows
    /\ stdout' = Append(stdout, <<i, outcome>>)
    /\ i' = i
    /\ pc' = "done"
    /\ exit_code' = 1

\* lines 146-150
FetchFound ==
    /\ pc = "fetch"
    /\ \E o \in Outcomes :
        /\ ~o.raises
        /\ Truthy(fetch_node_id(o.page))
        /\ Answers(o)
        /\ NextRow(SetCells(rows[i + 1], Val(fetch_node_id(o.page)),
                            edit_link(args.base_url, Val(fetch_node_id(o.page)))), "found")
    /\ UNCHANGED <<diskvars, args, node_col_idx, edit_col_idx, url, written, requests,
                   run, orig, first_result>>
    /\ UNCHANGED others

\* lines 146-147, 151-154
FetchNotFound ==
    /\ pc = "fetch"
    /\ \E o \in Outcomes :
        /\ ~o.raises
        /\ ~Truthy(fetch_node_id(o.page))
        /\ Answers(o)
        /\ NextRow(SetCells(rows[i + 1], << >>, << >>), "not found")
    /\ UNCHANGED <<diskvars, args, node_col_idx, edit_col_idx, url, written, requests,
                   run, orig, first_result>>
    /\ UNCHANGED others

\* The exception of the fetch left uncaught.
FetchErrorAborts ==
    /\ pc = "fetch"
    /\ \E o \in Outcomes :
        /\ o.raises
        /\ Answers(o)
        /\ Abort(rows[i + 1], "error")
    /\ UNCHANGED <<diskvars, args, node_col_idx, edit_col_idx, url, written, requests,
                   run, orig, first_result>>
    /\ UNCHANGED others

\* lines 146, 155-158
FetchError ==
    /\ pc = "fetch"
    /\ \E o \in Outcomes :
        /\ o.raises
        /\ Answers(o)
        /\ NextRow(SetCells(rows[i + 1], << >>, << >>), "error")
    /\ UNCHANGED <<diskvars, args, node_col_idx, edit_col_idx, url, written, requests,
                   run, orig, first_result>>
    /\ UNCHANGED others

\* lines 164-165: open(tmp_path, "w") creates or truncates the sibling file.
OpenTmp ==
    /\ pc = "loop"
    /\ i > total
    /\ tmp_exists' = TRUE
    /\ tmp_file' = << >>
    /\ written' = 0
    /\ pc' = "write"
    /\ UNCHANGED <<csv_exists, csv_file, args, rows, node_col_idx, edit_col_idx,
                   updated_rows, i, url, stdout, requests, exit_code, histvars>>
    /\ UNCHANGED others

\* A writer that opens the table itself instead of the sibling file.
WriteRowInPlace ==
    /\ pc = "write"
    /\ written < Len(updated_rows)
    /\ csv_file' = SubSeq(updated_rows, 1, written + 1)
    /\ tmp_file' = Append(tmp_file, updated_rows[written + 1])
    /\ written' = written + 1
    /\ UNCHANGED <<csv_exists, tmp_exists, args, pc, rows, node_col_idx, edit_col_idx,
                   updated_rows, i, url, stdout, requests, exit_code, histvars>>
    /\ UNCHANGED others

\* lines 166-167: writerows sends the rows to the temporary file one by one.
WriteRow ==
    /\ pc = "write"
    /\ written < Len(updated_rows)
    /\ tmp_file' = Append(tmp_file, updated_rows[written + 1])
    /\ written' = written + 1
    /\ UNCHANGED <<csv_exists, csv_file, tmp_exists, args, pc, rows, node_col_idx,
                   edit_col_idx, updated_rows, i, url, stdout, requests, exit_code,
                   histvars>>
    /\ UNCHANGED others

\* lines 169-171: the temporary file is renamed over the table (os.replace).
Replace ==
    /\ pc = "write"
    /\ written = Len(updated_rows)
    /\ csv_file' = tmp_file
    /\ csv_exists' = TRUE
    /\ tmp_exists' = FALSE
    /\ tmp_file' = << >>
    /\ exit_code' = 0
    /\ pc' = "done"
    /\ UNCHANGED <<args, rows, node_col_idx, edit_col_idx, updated_rows, i, url, written,
                   stdout, requests, histvars>>
    /\ UNCHANGED others

\* The process is killed (or crashes): its memory is gone, the disk stays.
Kill ==
    /\ pc \in {"start", "loop", "fetch", "write"}
    /\ pc' = "killed"
    /\ Fresh
    /\ UNCHANGED <<diskvars, args, exit_code, histvars>>
    /\ UNCHANGED others

\* The resolver is started again on the table the first run left, same flags.
Rerun ==
    /\ pc = "done"
    /\ run = 1
    /\ run' = 2
    /\ first_result' = csv_file
    /\ orig' = csv_file
    /\ pc' = "start"
    /\ exit_code' = -1
    /\ Fresh
    /\ UNCHANGED <<diskvars, args, web>>
    /\ UNCHANGED others

(***************************************************************************)
(* ArticleNodeIdParser fed the start tags of one document, one by one      *)
(***************************************************************************)
DocTags ==
    { Tag("div", <<<<ATTR, Some(<<"482">>)>>>>),
      Tag("article", << >>),
      Tag("article", <<<<ATTR, None>>>>),
      Tag("article", <<<<ATTR, Some(<< >>)>>>>),
      Tag("article", <<<<ATTR, Some(<<" ">>)>>>>),
      Tag("ARTICLE", <<<<"class", Some(<<"node">>)>>, <<ATTR, Some(<<" ", "7", " ">>)>>>>),
      Tag("article", <<<<ATTR, Some(<<"482">>)>>>>) }

ParserInit ==
    /\ doc \in SeqsUpTo(DocTags, MaxDocTags)
    /\ pos = 0
    /\ node_id = None

\* HTMLParser.feed reaches the next start tag and calls handle_starttag.
HandleStartTag ==
    /\ pos < Len(doc)
    /\ node_id' = handle_starttag(node_id, doc[pos + 1][1], doc[pos + 1][2])
    /\ pos' = pos + 1
    /\ UNCHANGED <<doc, rvars, avars, cvars>>

(***************************************************************************)
(* prepare_data.py                                                         *)
(***************************************************************************)
\* CATEGORY_MAP, in the order of the dict literal (lines 24-127).
CATEGORY_MAP ==
    << <<<<"field_topics">>,
        << <<"Eating and body image">>,
           <<"Relationships">>,
           <<"Panic attacks">>,
           <<"Natural disasters">>,
           <<"Stress">>,
           <<"Self-harm">>,
           <<"Suicide">>,
           <<"Psychosis">>,
           <<"Grief">>,
           <<"Gambling">>,
           <<"Domestic and family violence">>,
           <<"Financial stress">>,
           <<"Trauma">>,
           <<"Loneliness">>,
           <<"Depression">>,
           <<"Substance Misuse">>,
           <<"Anxiety">> >> >>,
      <<<<"field_media_type">>,
        << <<"Read">>,
           <<"Watch">>,
           <<"Listen">> >> >>,
      <<<<"field_audience">>,
        << <<"Carer Stories">>,
           <<"For Others Page">>,
           <<"Friends Family">> >> >>,
      <<<<"field_quiz_question_2">>,
        << <<"Long-term help">>,
           <<"Short-term help">> >> >>,
      <<<<"field_timeframe">>,
        << <<"Long term">>,
           <<"Right now">> >> >>,
      <<<<"field_support_toolkit_type">>,
        << <<"Technique or Strategy">>,
           <<"Support Service">>,
           <<"Support Guide">>,
           <<"Real Story">>,
           <<"Tool or App">> >> >>,
      <<<<"field_tools_apps_type">>,
        << <<"Online Program">>,
           <<"Book">>,
           <<"Website">>,
           <<"App">> >> >>,
      <<<<"field_quiz_question_1">>,
        << <<"Other topics">> >> >>,
      <<<<"field_quiz_understanding">>,
        << <<"Understanding">> >> >>,
      <<<<"field_cost">>,
        << <<"Low cost">>,
           <<"Free">> >> >>,
      <<<<"field_access_options">>,
        << <<"Online">>,
           <<"Phone">>,
           <<"Counselling">>,
           <<"Text">>,
           <<"Forum">>,
           <<"Peer Support">>,
           <<"Crisis">>,
           <<"In Person">> >> >>,
      <<<<"field_state">>,
        << <<"National">>,
           <<"NT">>,
           <<"ACT">>,
           <<"SA">>,
           <<"TAS">>,
           <<"VIC">>,
           <<"WA">>,
           <<"QLD">>,
           <<"NSW">> >> >>,
      <<<<"field_quiz_priority">>,
        << <<"Priority 3">>,
           <<"Priority 2">>,
           <<"Priority 1">> >> >> >>

\* LABEL_TRANSLATION, as the pairs of the dict literal (lines 151-171).
LABEL_TRANSLATION_ITEMS ==
    << <<<<"Technique or Strategy">>, <<"Techniques & Guides">>>>,
       <<<<"Tool or App">>, <<"Tools & Apps">>>>,
       <<<<"Right now">>, <<"Help right now">>>>,
       <<<<"Long term">>, <<"Long term help">>>>,
       <<<<"Short-term help">>, <<"Try something to help me manage now">>>>,
       <<<<"Long-term help">>, <<"Strategies to help me long term">>>>,
       <<<<"Other topics">>, <<"I'm feeling something else">>>>,
       <<<<"For Others Page">>, <<"For Others">>>>,
       <<<<"Friends Family">>, <<"For Friends & Family">>>>,
       <<<<"Grief">>, <<"Grief & loss">>>>,
       <<<<"Gambling">>, <<"Problem gambling">>>>,
       <<<<"Online">>, <<"Online Chat">>>> >>

\* dict.get(key): None when the key is absent.
dict_get(d, key) == IF key \in DOMAIN d THEN Some(d[key]) ELSE None

\* lines 130-139: the flat lookup; a label already mapped keeps its first field.
RECURSIVE BuildLookup(_, _, _, _)
BuildLookup(lookup, groups, g, n) ==
    IF g > Len(groups) THEN lookup
    ELSE IF n > Len(groups[g][2]) THEN BuildLookup(lookup, groups, g + 1, 1)
    ELSE LET label == groups[g][2][n]
         IN  IF label \in DOMAIN lookup
             THEN BuildLookup(lookup, groups, g, n + 1)
             ELSE BuildLookup([l \in DOMAIN lookup \cup {label} |->
                                  IF l = label THEN groups[g][1] ELSE lookup[l]],
                              groups, g, n + 1)

TAG_LABEL_TO_FIELD == BuildLookup(<< >>, CATEGORY_MAP, 1, 1)

IGNORED_TAGS == {<<"Audio">>, <<"Graphic">>, <<"Video">>}

LABEL_TRANSLATION ==
    [l \in {LABEL_TRANSLATION_ITEMS[n][1] : n \in DOMAIN LABEL_TRANSLATION_ITEMS} |->
        LABEL_TRANSLATION_ITEMS[CHOOSE n \in DOMAIN LABEL_TRANSLATION_ITEMS :
            /\ LABEL_TRANSLATION_ITEMS[n][1] = l
            /\ \A m \in DOMAIN LABEL_TRANSLATION_ITEMS :
                   LABEL_TRANSLATION_ITEMS[m][1] = l => m <= n][2]]

translate_label(label) ==
    IF label \in DOMAIN LABEL_TRANSLATION THEN LABEL_TRANSLATION[label] ELSE label

\* `x or ""` for an Optional[str]
OrEmpty(o) == IF Truthy(o) THEN Val(o) ELSE << >>

\* A dict[str, list[str]] is the sequence of its <<key, list>> items, in
\* insertion order.  fields.setdefault(field, []).append(value):
HasKey(fields, field) == \E n \in 1..Len(fields) : fields[n][1] = field
setdefault_append(fields, field, value) ==
    IF HasKey(fields, field)
    THEN [n \in 1..Len(fields) |->
             IF fields[n][1] = field THEN <<field, Append(fields[n][2], value)>> ELSE fields[n]]
    ELSE Append(fields, <<field, <<value>>>>)

\* lines 222-232 with the field looked up by the translated label.
ClassifyTagByTranslated(st, tag) ==
    LET label == strip(OrEmpty(tag.label))
        field == dict_get(TAG_LABEL_TO_FIELD, translate_label(label))
    IN  IF label = << >> THEN st
        ELSE IF Truthy(field)
        THEN [st EXCEPT !.fields = setdefault_append(@, Val(field), translate_label(label))]
        ELSE IF label \notin IGNORED_TAGS
        THEN [st EXCEPT !.unmapped_tags = Append(@, label)]
        ELSE st

\* lines 222-232 without the ignored set.
ClassifyTagNoIgnored(st, tag) ==
    LET label == strip(OrEmpty(tag.label))
        field == dict_get(TAG_LABEL_TO_FIELD, label)
    IN  IF label = << >> THEN st
        ELSE IF Truthy(field)
        THEN [st EXCEPT !.fields = setdefault_append(@, Val(field), translate_label(label))]
        ELSE [st EXCEPT !.unmapped_tags = Append(@, label)]

\* lines 222-232: one iteration of the loop over tags.
ClassifyTag(st, tag) ==
    LET label == strip(OrEmpty(tag.label))
        field == dict_get(TAG_LABEL_TO_FIELD, label)
    IN  IF label = << >> THEN st
        ELSE IF Truthy(field)
        THEN [st EXCEPT !.fields = setdefault_append(@, Val(field), translate_label(label))]
        ELSE IF label \notin IGNORED_TAGS
        THEN [st EXCEPT !.unmapped_tags = Append(@, label)]
        ELSE st

RECURSIVE ClassifyTags(_, _)
ClassifyTags(st, tags) ==
    IF tags = << >> THEN st ELSE ClassifyTags(ClassifyTag(st, Head(tags)), Tail(tags))

\* lines 242-251: one iteration of the loop over feelings.  A feeling is a
\* dict with a label, a str, or something else.
ClassifyFeeling(fields, feeling) ==
    IF feeling.type \notin {"dict", "str"} THEN fields
    ELSE LET label == IF feeling.type = "dict" THEN strip(OrEmpty(feeling.label))
                      ELSE strip(Val(feeling.label))
         IN  IF label # << >> THEN setdefault_append(fields, <<"field_feelings">>, label)
             ELSE fields

RECURSIVE ClassifyFeelings(_, _)
ClassifyFeelings(fields, feelings) ==
    IF feelings = << >> THEN fields
    ELSE ClassifyFeelings(ClassifyFeeling(fields, Head(feelings)), Tail(feelings))

\* lines 212-253.  The result holds the returned dict and the lines printed
\* to stderr (none or one), each with the title shown and the labels listed.
classify_article(a) ==
    LET st == ClassifyTags([fields |-> << >>, unmapped_tags |-> << >>], a.tags)
    IN  [fields |-> ClassifyFeelings(st.fields, a.feelings),
         stderr |-> IF st.unmapped_tags # << >>
                    THEN <<[title |-> IF a.title = None THEN <<"?">> ELSE Val(a.title),
                            labels |-> st.unmapped_tags]>>
                    ELSE << >>]

\* ---- classify_article called on one article
TagLabels ==
    { None, Some(<<" ">>), Some(<<"Grief">>), Some(<<" ", "Stress", " ">>), Some(<<"Online">>),
      Some(<<"Video">>), Some(<<"UnknownXYZ">>), Some(<<"Grief & loss">>) }
TagPool == {[label |-> l] : l \in TagLabels}
FeelingPool ==
    { [type |-> "dict", label |-> Some(<<"Sad">>)],
      [type |-> "str", label |-> Some(<<" ", "Video">>)],
      [type |-> "other", label |-> None] }

ClassifyInit ==
    /\ article \in [path : {<<"/", "foo">>}, title : {Some(<<"T">>)}, name : {None},
                    tags : SeqsUpTo(TagPool, MaxTags),
                    feelings : SeqsUpTo(FeelingPool, MaxFeelings)]
    /\ ret = None
    /\ stderr = << >>

CallClassify ==
    /\ ret = None
    /\ ret' = Some(classify_article(article).fields)
    /\ stderr' = classify_article(article).stderr
    /\ UNCHANGED <<article, rvars, pvars, cvars>>

\* ---- load_path_mapping and main
\* str.startswith("http"), by the first chunk of the string.
startswith_http(s) == s # << >> /\ Head(s) \in {"http:", "https:", "http-help"}

\* lines 195-205 on the rows csv.DictReader yields: a later row of the same
\* sanity path replaces the earlier one.
RECURSIVE load_path_mapping(_, _)
load_path_mapping(mapping, csvrows) ==
    IF csvrows = << >> THEN mapping
    ELSE LET sanity == strip(Head(csvrows).sanity)
             drupal == strip(Head(csvrows).drupal)
         IN  IF startswith_http(sanity) THEN load_path_mapping(mapping, Tail(csvrows))
             ELSE load_path_mapping([s \in DOMAIN mapping \cup {sanity} |->
                                        IF s = sanity THEN drupal ELSE mapping[s]],
                                    Tail(csvrows))

PathRow(s, d) == [sanity |-> s, drupal |-> d]
PathTables ==
    { << PathRow(<<"foo">>, <<"old">>),
         PathRow(<<" ", "foo">>, <<"bar", " ">>),
         PathRow(<<"blank">>, <<" ">>),
         PathRow(<<"https:", "/", "/", "x">>, <<"ext">>),
         PathRow(<<"http-help">>, <<"help">>) >>,
      << PathRow(<<"blank">>, <<"b">>) >> }

Art(path, title, name, tags, feelings) ==
    [path |-> path, title |-> title, name |-> name,
     tags |-> [n \in 1..Len(tags) |-> [label |-> tags[n]]], feelings |-> feelings]

ArticlePool ==
    { Art(<<"/", "foo">>, Some(<<"T">>), None, <<Some(<<"Grief">>)>>, << >>),
      Art(<<"/", "foo">>, Some(<<"T">>), None,
          <<Some(<<"UnknownXYZ">>), Some(<<"Video">>), Some(<<"Grief & loss">>)>>, << >>),
      Art(<<"/", "foo">>, Some(<<"T">>), None, <<Some(<<"Video">>), None>>, << >>),
      Art(<<"/", "/", "foo">>, Some(<<"T">>), None,
          <<Some(<<"UnknownXYZ">>), Some(<<" ", "Online">>), Some(<<"Grief">>)>>,
          <<[type |-> "dict", label |-> Some(<<"Sad">>)]>>),
      Art(<<"blank">>, Some(<<"T">>), None, <<Some(<<"Grief">>)>>, << >>),
      Art(<<"blank">>, Some(<<"T">>), None, <<Some(<<"UnknownXYZ">>)>>, << >>),
      Art(<<"http-help">>, Some(<<"T">>), None, << >>,
          <<[type |-> "str", label |-> Some(<<"Calm">>)]>>),
      Art(<<"foo">>, None, Some(<<"N">>), <<Some(<<"UnknownXYZ">>), Some(<<"Stress">>)>>, << >>) }

ClassifierInit ==
    /\ paths_csv \in PathTables
    /\ articles \in SeqsUpTo(ArticlePool, MaxArticles)
    /\ path_map = << >>
    /\ k = 0
    /\ results = << >>
    /\ matched = 0
    /\ unmatched_paths = << >>
    /\ warnings = << >>
    /\ output_file = None
    /\ cpc = "start"

\* lines 262-276
Load ==
    /\ cpc = "start"
    /\ path_map' = load_path_mapping(<< >>, paths_csv)
    /\ k' = 1
    /\ cpc' = "loop"
    /\ UNCHANGED <<paths_csv, articles, results, matched, unmatched_paths, warnings,
                   output_file, rvars, pvars, avars>>

\* The article of the iteration (lines 278-283).
sanity_path == lstrip(articles[k].path, "/")
target_path == dict_get(path_map, sanity_path)
InArticles == cpc = "loop" /\ k <= Len(articles)
Record(a, fields) ==
    [drupal_path |-> Val(target_path), sanity_path |-> sanity_path,
     title |-> IF Truthy(a.title) THEN Val(a.title) ELSE OrEmpty(a.name),
     fields |-> fields]
\* The lines classify_article printed, each with the article it was called on.
Printed(a) == [n \in 1..Len(classify_article(a).stderr) |->
                  [article |-> k, title |-> classify_article(a).stderr[n].title,
                   labels |-> classify_article(a).stderr[n].labels]]

\* lines 278-286
ArticleUnmatched ==
    /\ InArticles
    /\ ~Truthy(target_path)
    /\ unmatched_paths' = Append(unmatched_paths, sanity_path)
    /\ k' = k + 1
    /\ UNCHANGED <<paths_csv, articles, path_map, results, matched, warnings, cpc,
                   output_file, rvars, pvars, avars>>

\* lines 278-298, the article has fields to populate
ArticleIncluded ==
    /\ InArticles
    /\ Truthy(target_path)
    /\ classify_article(articles[k]).fields # << >>
    /\ matched' = matched + 1
    /\ warnings' = warnings \o Printed(articles[k])
    /\ results' = Append(results, Record(articles[k], classify_article(articles[k]).fields))
    /\ k' = k + 1
    /\ UNCHANGED <<paths_csv, articles, path_map, unmatched_paths, cpc, output_file,
                   rvars, pvars, avars>>

\* An article without fields written to the output all the same.
ArticleDroppedKept ==
    /\ InArticles
    /\ Truthy(target_path)
    /\ classify_article(articles[k]).fields = << >>
    /\ matched' = matched + 1
    /\ warnings' = warnings \o Printed(articles[k])
    /\ results' = Append(results, Record(articles[k], << >>))
    /\ k' = k + 1
    /\ UNCHANGED <<paths_csv, articles, path_map, unmatched_paths, cpc, output_file,
                   rvars, pvars, avars>>

\* lines 278-292, the article has no field to populate
ArticleDropped ==
    /\ InArticles
    /\ Truthy(target_path)
    /\ classify_article(articles[k]).fields = << >>
    /\ matched' = matched + 1
    /\ warnings' = warnings \o Printed(articles[k])
    /\ k' = k + 1
    /\ UNCHANGED <<paths_csv, articles, path_map, results, unmatched_paths, cpc,
                   output_file, rvars, pvars, avars>>

\* lines 300-302: page_fields.json is written once, after the loop.
WriteOutput ==
    /\ cpc = "loop"
    /\ k > Len(articles)
    /\ output_file' = Some(results)
    /\ cpc' = "done"
    /\ UNCHANGED <<paths_csv, articles, path_map, k, results, matched, unmatched_paths,
                   warnings, rvars, pvars, avars>>

ResolverIdle ==
    /\ csv_exists = FALSE /\ csv_file = << >> /\ tmp_exists = FALSE /\ tmp_file = << >>
    /\ args = [base_url |-> DEFAULT_BASE_URL, skip_existing |-> FALSE]
    /\ pc = "idle" /\ rows = << >> /\ node_col_idx = 0 /\ edit_col_idx = 0
    /\ updated_rows = << >> /\ i = 0 /\ url = << >> /\ written = 0 /\ stdout = << >>
    /\ requests = << >> /\ exit_code = -1
    /\ web = << >> /\ run = 0 /\ orig = << >> /\ first_result = << >>

ParserIdle == doc = << >> /\ pos = 0 /\ node_id = None

ClassifyIdle == article = << >> /\ ret = None /\ stderr = << >>

ClassifierIdle ==
    /\ paths_csv = << >> /\ articles = << >> /\ path_map = << >> /\ k = 0
    /\ results = << >> /\ matched = 0 /\ unmatched_paths = << >> /\ warnings = << >>
    /\ output_file = None /\ cpc = "idle"

ResolverInit ==
    /\ csv_exists \in BOOLEAN
    /\ csv_file \in Tables
    /\ ~csv_exists => csv_file = << >>
    /\ tmp_exists = FALSE /\ tmp_file = << >>
    /\ args \in Args
    /\ pc = "start" /\ rows = << >> /\ node_col_idx = 0 /\ edit_col_idx = 0
    /\ updated_rows = << >> /\ i = 0 /\ url = << >> /\ written = 0 /\ stdout = << >>
    /\ requests = << >> /\ exit_code = -1
    /\ web = << >> /\ run = 1 /\ orig = csv_file /\ first_result = << >>

Init == ResolverInit /\ ParserIdle /\ ClassifyIdle /\ ClassifierIdle

Run ==
    \/ CsvMissing
    \/ CsvEmpty
    \/ ReadCsv
    \/ SkipExisting
    \/ EmptyPath
    \/ BeginFetch
    \/ FetchFound
    \/ FetchNotFound
    \/ FetchError
    \/ OpenTmp
    \/ WriteRow
    \/ Replace
    \/ Kill

Next == Run

Spec == Init /\ [][Next]_vars

NextTwice == Run \/ Rerun

SpecTwice == Init /\ [][NextTwice]_vars

InitParser == ResolverIdle /\ ParserInit /\ ClassifyIdle /\ ClassifierIdle

NextParser == HandleStartTag

SpecParser == InitParser /\ [][NextParser]_vars

InitClassify == ResolverIdle /\ ParserIdle /\ ClassifyInit /\ ClassifierIdle

NextClassify == CallClassify

SpecClassify == InitClassify /\ [][NextClassify]_vars

NextClassifier ==
    \/ Load
    \/ ArticleUnmatched
    \/ ArticleIncluded
    \/ ArticleDropped
    \/ WriteOutput

InitClassifier == ResolverIdle /\ ParserIdle /\ ClassifyIdle /\ ClassifierInit

SpecClassifier == InitClassifier /\ [][NextClassifier]_vars

(***************************************************************************)
(* The resolver's claims.  orig is the table as the run read it; the       *)
(* columns are located in it the way lines 110-120 locate them.            *)
(***************************************************************************)
Finished == pc = "done" /\ exit_code = 0
DataRows(table) == 1..(Len(table) - 1)
NodeIdxOf(table) == IndexOf(AddColumns(table[1]), node_col_name)
EditIdxOf(table) == IndexOf(AddColumns(table[1]), edit_col_name)
WidthOf(table) == Max(NodeIdxOf(table), EditIdxOf(table))
CellAt(row, c) == IF c <= Len(row) THEN row[c] ELSE << >>
Requested(r) == \E n \in 1..Len(requests) : requests[n][1] = r
OutcomeOf(r) == stdout[r][2]
LacksBoth(table) == ~In(node_col_name, table[1]) /\ ~In(edit_col_name, table[1])

\* The row read, extended on the right with empty cells to reach `width`.
IsBackfillOf(w, o, width) ==
    /\ Len(w) = Max(Len(o), width)
    /\ \A c \in 1..Len(w) : w[c] = CellAt(o, c)

\* C1 as stated: after a run, every data row that has a non-empty node-id
\* while --skip-existing is set, or an empty source path, is written exactly
\* as it was read (same cells, same number of cells) and was never fetched.
C1_RowLeftAsRead ==
    Finished =>
        \A r \in DataRows(orig) :
            (\/ args.skip_existing /\ CellAt(orig[r + 1], NodeIdxOf(orig)) # << >>
             \/ CellAt(orig[r + 1], 1) = << >>)
            => csv_file[r + 1] = orig[r + 1] /\ ~Requested(r)

\* C1 amended: after a run, every data row whose node-id is non-empty after
\* trimming while --skip-existing is set, or whose source path is empty after
\* trimming, is written as it was read except that it is extended on the right
\* with empty cells until it reaches both the node-id and the edit-link
\* column; no cell it had is changed, and it is never fetched.
C1_RowLeftAsReadPadded ==
    Finished =>
        \A r \in DataRows(orig) :
            (\/ args.skip_existing /\ strip(CellAt(orig[r + 1], NodeIdxOf(orig))) # << >>
             \/ strip(CellAt(orig[r + 1], 1)) = << >>)
            => /\ IsBackfillOf(csv_file[r + 1], orig[r + 1], WidthOf(orig))
               /\ ~Requested(r)

C1_Witness ==
    /\ Finished
    /\ args.skip_existing
    /\ \E r \in DataRows(orig) :
        /\ strip(CellAt(orig[r + 1], NodeIdxOf(orig))) # << >>
        /\ CellAt(orig[r + 1], 1) # << >>
        /\ csv_file[r + 1] = orig[r + 1]
    /\ \E r \in DataRows(orig) :
        /\ CellAt(orig[r + 1], NodeIdxOf(orig)) = << >>
        /\ strip(CellAt(orig[r + 1], 1)) = << >>
        /\ Len(csv_file[r + 1]) > Len(orig[r + 1])

\* C2 as stated: after a run, every data row of the written table has node-id
\* and edit-link both empty or both non-empty, and a non-empty node-id comes
\* with the edit-link baseUrl + "/node/" + node-id + "/edit".
C2_LinkDerivable ==
    Finished =>
        \A r \in DataRows(csv_file) :
            LET nid == csv_file[r + 1][node_col_idx]
                link == csv_file[r + 1][edit_col_idx]
            IN  /\ (nid = << >>) <=> (link = << >>)
                /\ nid # << >> =>
                       link = args.base_url \o <<"/", "node", "/">> \o nid \o <<"/", "edit">>

\* C2 amended: after a run, every data row that was fetched in the run has
\* node-id and edit-link both empty or both non-empty, and a non-empty node-id
\* comes with the edit-link made of baseUrl without its trailing slashes,
\* "/node/", the node-id and "/edit"; a row that was not fetched keeps the
\* node-id and edit-link cells it was read with (empty when it had none).
C2_LinkDerivableWhenFetched ==
    Finished =>
        \A r \in DataRows(csv_file) :
            LET nid == csv_file[r + 1][node_col_idx]
                link == csv_file[r + 1][edit_col_idx]
            IN  IF Requested(r)
                THEN /\ (nid = << >>) <=> (link = << >>)
                     /\ nid # << >> =>
                            link = rstrip(args.base_url, "/") \o <<"/", "node", "/">>
                                       \o nid \o <<"/", "edit">>
                ELSE /\ nid = CellAt(orig[r + 1], NodeIdxOf(orig))
                     /\ link = CellAt(orig[r + 1], EditIdxOf(orig))

C2_Witness ==
    /\ Finished
    /\ args.base_url # rstrip(args.base_url, "/")
    /\ \E r \in DataRows(csv_file) :
        /\ Requested(r)
        /\ OutcomeOf(r) = "found"
        /\ CellAt(orig[r + 1], EditIdxOf(orig)) = <<"junk">>
        /\ csv_file[r + 1][node_col_idx] = <<"482">>
    /\ \E r \in DataRows(csv_file) :
        /\ ~Requested(r)
        /\ csv_file[r + 1][node_col_idx] # << >>
        /\ csv_file[r + 1][edit_col_idx] = << >>

\* C3: whatever the step at which the process is killed, the table on disk is
\* the complete original until the final replace and the complete updated
\* table after it; a partially written table is only ever in the temporary file.
C3_TableNeverPartial ==
    /\ ~Finished => csv_file = orig
    /\ Finished => csv_file = updated_rows /\ Len(csv_file) = Len(orig)

C3_Witness ==
    /\ pc = "killed"
    /\ tmp_exists
    /\ tmp_file # << >>
    /\ Len(tmp_file) < Len(orig)
    /\ \E r \in DataRows(orig) : r + 1 <= Len(tmp_file) /\ tmp_file[r + 1] # orig[r + 1]
    /\ csv_file = orig

\* C4: a second run with the same flags and the same answer for every URL
\* leaves the table the first run wrote.
C4_Idempotent ==
    (run = 2 /\ pc = "done") => csv_file = first_result

C4_Witness ==
    /\ run = 2
    /\ Finished
    /\ requests # << >>
    /\ \E r \in DataRows(csv_file) : OutcomeOf(r) = "found"
    /\ \E r \in DataRows(csv_file) : OutcomeOf(r) = "error"

\* C5: a run on a table that exists and is not empty ends with status zero
\* whatever its fetches did; the written table has the rows of the input in
\* the same order, every row was processed, and a row whose fetch raised or
\* found no identifier has node-id and edit-link both empty.
C5_RowFailureNotFatal ==
    (pc = "done" /\ csv_exists /\ orig # << >>) =>
        /\ exit_code = 0
        /\ Len(csv_file) = Len(orig)
        /\ Len(stdout) = Len(orig) - 1
        /\ \A r \in DataRows(orig) :
            /\ stdout[r][1] = r
            /\ Len(csv_file[r + 1]) >= Len(orig[r + 1])
            /\ \A c \in 1..Len(orig[r + 1]) :
                   c \notin {node_col_idx, edit_col_idx} => csv_file[r + 1][c] = orig[r + 1][c]
            /\ OutcomeOf(r) \in {"not found", "error"} =>
                   /\ csv_file[r + 1][node_col_idx] = << >>
                   /\ csv_file[r + 1][edit_col_idx] = << >>

C5_Witness ==
    /\ Finished
    /\ Len(orig) = 3
    /\ OutcomeOf(1) = "error"
    /\ CellAt(orig[2], NodeIdxOf(orig)) # << >>
    /\ OutcomeOf(2) = "found"

\* C10 as stated: on a table whose header has neither column, the header
\* becomes the original header, node-id, edit-link, and all data rows are
\* backfilled before a value is written to any row.
C10_BackfillBeforeFirstRow ==
    (pc \in {"loop", "fetch", "write", "done"} /\ exit_code # 1 /\ LacksBoth(orig)) =>
        /\ rows[1] = orig[1] \o <<node_col_name, edit_col_name>>
        /\ (\E r \in 1..Len(stdout) : OutcomeOf(r) \in {"found", "not found", "error"})
               => \A r \in DataRows(rows) : Len(rows[r + 1]) >= Width

\* C10 amended: on a table whose header has neither column, the header
\* becomes the original header, node-id, edit-link; each data row is
\* backfilled with empty strings in the new columns before a value is written
\* to that row (rows after it are backfilled later, one by one), and every
\* data row of the written table is backfilled.
C10_BackfillBeforeOwnValue ==
    (pc \in {"loop", "fetch", "write", "done"} /\ exit_code # 1 /\ LacksBoth(orig)) =>
        /\ rows[1] = orig[1] \o <<node_col_name, edit_col_name>>
        /\ node_col_idx = Len(orig[1]) + 1
        /\ edit_col_idx = Len(orig[1]) + 2
        /\ pc = "fetch" => IsBackfillOf(rows[i + 1], orig[i + 1], Width)
        /\ \A r \in 1..Len(stdout) : Len(rows[r + 1]) >= Width
        /\ Finished =>
               /\ csv_file[1] = orig[1] \o <<node_col_name, edit_col_name>>
               /\ \A r \in DataRows(orig) :
                      /\ Len(csv_file[r + 1]) = Max(Len(orig[r + 1]), Width)
                      /\ \A c \in 1..Len(orig[r + 1]) : csv_file[r + 1][c] = orig[r + 1][c]
                      /\ ~Requested(r) => IsBackfillOf(csv_file[r + 1], orig[r + 1], Width)

C10_Witness ==
    /\ pc = "fetch"
    /\ LacksBoth(orig)
    /\ i = 2
    /\ OutcomeOf(1) = "found"
    /\ Len(orig[2]) < Width
    /\ Len(orig[3]) < Width
    /\ Len(rows[3]) = Width

(***************************************************************************)
(* The parser's claim                                                      *)
(***************************************************************************)
\* An article start tag that carries the attribute, non-empty once trimmed.
CarriesId(tag) ==
    /\ lower(tag[1]) = "article"
    /\ attr_get(tag[2], "data-history-node-id") # None
    /\ strip(Val(attr_get(tag[2], "data-history-node-id"))) # << >>

FirstId(d) ==
    IF \E n \in 1..Len(d) : CarriesId(d[n])
    THEN LET n == CHOOSE n \in 1..Len(d) :
                      CarriesId(d[n]) /\ \A m \in 1..(n - 1) : ~CarriesId(d[m])
         IN  Some(strip(Val(attr_get(d[n][2], "data-history-node-id"))))
    ELSE None

\* C9: once the whole document is fed, the identifier main takes from the
\* parser is the trimmed attribute of the first article start tag on which
\* the attribute is present and non-empty after trimming, and "not found"
\* (None) when no article tag carries one.
C9_FirstArticleWithIdWins ==
    pos = Len(doc) => (IF Truthy(node_id) THEN node_id ELSE None) = FirstId(doc)

(***************************************************************************)
(* The classifier's claims                                                 *)
(***************************************************************************)
StaticFields == {CATEGORY_MAP[g][1] : g \in DOMAIN CATEGORY_MAP}
InGroup(label, F) ==
    \E g \in DOMAIN CATEGORY_MAP : CATEGORY_MAP[g][1] = F /\ In(label, CATEGORY_MAP[g][2])
Translation(label) ==
    IF \E n \in DOMAIN LABEL_TRANSLATION_ITEMS : LABEL_TRANSLATION_ITEMS[n][1] = label
    THEN LABEL_TRANSLATION_ITEMS[CHOOSE n \in DOMAIN LABEL_TRANSLATION_ITEMS :
                                     LABEL_TRANSLATION_ITEMS[n][1] = label][2]
    ELSE label
TrimmedLabel(tag) == strip(IF tag.label = None THEN << >> ELSE Val(tag.label))
FieldValue(fields, F) ==
    IF \E n \in 1..Len(fields) : fields[n][1] = F
    THEN fields[CHOOSE n \in 1..Len(fields) : fields[n][1] = F][2]
    ELSE << >>

\* The translations of the tags of group F, in tag order, duplicates kept.
RECURSIVE ExpectedFor(_, _)
ExpectedFor(F, tags) ==
    IF tags = << >> THEN << >>
    ELSE (IF InGroup(TrimmedLabel(Head(tags)), F)
          THEN <<Translation(TrimmedLabel(Head(tags)))>> ELSE << >>)
         \o ExpectedFor(F, Tail(tags))

\* C6: for the article classify_article was called on and every field F of
\* the static map, fields[F] is the sequence of the article's trimmed tag
\* labels that the group of F contains, in tag order with duplicates, each
\* translated (or kept when it has no translation); the group is found by
\* the source label, and no other key than the static fields and
\* field_feelings appears.
C6_TagsClassifiedByGroup ==
    ret # None =>
        /\ \A F \in StaticFields : FieldValue(Val(ret), F) = ExpectedFor(F, article.tags)
        /\ \A n \in 1..Len(Val(ret)) :
               /\ Val(ret)[n][1] \in StaticFields \cup {<<"field_feelings">>}
               /\ Val(ret)[n][2] # << >>
               /\ \A m \in 1..Len(Val(ret)) : Val(ret)[m][1] = Val(ret)[n][1] => m = n

C6_Witness ==
    /\ ret # None
    /\ FieldValue(Val(ret), <<"field_topics">>) = <<<<"Grief & loss">>, <<"Stress">>, <<"Grief & loss">>>>
    /\ \E n \in 1..Len(article.tags) : article.tags[n].label = Some(<<" ", "Stress", " ">>)

\* The path table as the claims read it: the rows whose sanity path is not a
\* URL, a later row replacing an earlier one of the same path.
ArticlePath(a) == lstrip(a.path, "/")
EntryRows(a) ==
    {n \in 1..Len(paths_csv) :
        strip(paths_csv[n].sanity) = ArticlePath(a) /\ ~startswith_http(strip(paths_csv[n].sanity))}
HasEntry(a) == EntryRows(a) # {}
TargetOf(a) ==
    strip(paths_csv[CHOOSE n \in EntryRows(a) : \A m \in EntryRows(a) : m <= n].drupal)
MappedTags(a) == {n \in 1..Len(a.tags) : \E F \in StaticFields : InGroup(TrimmedLabel(a.tags[n]), F)}
YieldsFields(a) ==
    \/ MappedTags(a) # {}
    \/ \E n \in 1..Len(a.feelings) :
           /\ a.feelings[n].type \in {"dict", "str"}
           /\ a.feelings[n].label # None
           /\ strip(Val(a.feelings[n].label)) # << >>
\* Whether the article's path resolves: it has an entry and, when `strict`,
\* the entry's target path is not empty.
Resolves(a, strict) == HasEntry(a) /\ (strict => TargetOf(a) # << >>)

\* The articles (by position) that get a record, in article order.
RECURSIVE Included(_, _)
Included(n, strict) ==
    IF n > Len(articles) THEN << >>
    ELSE (IF Resolves(articles[n], strict) /\ YieldsFields(articles[n]) THEN <<n>> ELSE << >>)
         \o Included(n + 1, strict)

OutputIs(strict) ==
    /\ output_file # None
    /\ Len(Val(output_file)) = Len(Included(1, strict))
    /\ \A m \in 1..Len(Val(output_file)) :
           LET a == articles[Included(1, strict)[m]]
               r == Val(output_file)[m]
           IN  /\ r.sanity_path = ArticlePath(a)
               /\ r.drupal_path = TargetOf(a)
               /\ r.fields # << >>
    /\ matched = Cardinality({n \in 1..Len(articles) : Resolves(articles[n], strict)})
    /\ Len(unmatched_paths) = Cardinality({n \in 1..Len(articles) : ~Resolves(articles[n], strict)})

RECURSIVE UnmappedLabels(_)
UnmappedLabels(tags) ==
    IF tags = << >> THEN << >>
    ELSE LET label == TrimmedLabel(Head(tags))
         IN  (IF /\ label # << >>
                 /\ ~\E F \in StaticFields : InGroup(label, F)
                 /\ label \notin {<<"Audio">>, <<"Graphic">>, <<"Video">>}
              THEN <<label>> ELSE << >>)
             \o UnmappedLabels(Tail(tags))

WarningsFor(n) == SelectSeq(warnings, LAMBDA w : w.article = n)

RECURSIVE Entries(_)
Entries(fields) ==
    IF fields = << >> THEN 0
    ELSE (IF Head(fields)[1] = <<"field_feelings">> THEN 0 ELSE Len(Head(fields)[2]))
         + Entries(Tail(fields))

WarnedAsItShould(n) ==
    IF UnmappedLabels(articles[n].tags) # << >>
    THEN /\ Len(WarningsFor(n)) = 1
         /\ WarningsFor(n)[1].labels = UnmappedLabels(articles[n].tags)
    ELSE WarningsFor(n) = << >>

\* In every record the tags put as many labels into the fields as the
\* article has mapped tags: unmapped and ignored labels populate nothing.
OnlyMappedTagsPopulate ==
    Len(Val(output_file)) = Len(Included(1, TRUE)) =>
        \A m \in 1..Len(Val(output_file)) :
            Entries(Val(output_file)[m].fields)
                = Cardinality(MappedTags(articles[Included(1, TRUE)[m]]))

\* C8 as stated: every article of the export gets exactly one warning line
\* when it has a tag whose trimmed label is neither in the static map nor
\* ignored, listing those labels in tag order, and none otherwise; those
\* labels and the ignored ones populate no field.
C8_WarningPerArticle ==
    cpc = "done" =>
        /\ \A n \in 1..Len(articles) : WarnedAsItShould(n)
        /\ OnlyMappedTagsPopulate

\* C8 amended: every article of the export whose path resolves to a
\* non-empty target path gets exactly one warning line when it has such a
\* tag, listing those labels in tag order, and none otherwise; an article
\* whose path does not resolve gets no warning line at all; unmapped and
\* ignored labels populate no field.
C8_WarningPerResolvedArticle ==
    cpc = "done" =>
        /\ \A n \in 1..Len(articles) :
               IF Resolves(articles[n], TRUE) THEN WarnedAsItShould(n)
               ELSE WarningsFor(n) = << >>
        /\ OnlyMappedTagsPopulate

C8_Witness ==
    /\ cpc = "done"
    /\ Len(articles) = 2
    /\ Len(WarningsFor(1)) = 1
    /\ WarningsFor(1)[1].labels = <<<<"UnknownXYZ">>, <<"Grief & loss">>>>
    /\ \E t \in 1..Len(articles[1].tags) : TrimmedLabel(articles[1].tags[t]) = <<"Video">>
    /\ Resolves(articles[2], TRUE)
    /\ WarningsFor(2) = << >>
    /\ \E t \in 1..Len(articles[2].tags) : TrimmedLabel(articles[2].tags[t]) = <<"Video">>

====
